---- MODULE Spec2Model ----
(***************************************************************************)
(* tesslocate (src/main.cpp): locate targets on TESS full-frame-image      *)
(* footprints.                                                             *)
(*                                                                         *)
(* Spec      : one run of main() from IndexedPolygons::load()'s loop over  *)
(*             the s_region list to the end of the (OpenMP) query loop.    *)
(* CacheSpec : a sequence of runs of load_footprints() over one cache      *)
(*             file.                                                       *)
(*                                                                         *)
(* A string is a sequence of one-character strings, so that the tokenizer  *)
(* and std::stod are modelled by what they do to the characters.  A point  *)
(* S2LatLng::FromDegrees(dec, ra).ToPoint() is the record                  *)
(* [lon |-> ra, lat |-> dec] in whole degrees; two S2Points are == exactly *)
(* when the records are equal.  Containment in an S2 loop (interior on the *)
(* left of the boundary) is computed in the (lon, lat) plane, which agrees *)
(* with the sphere for the small footprints used here.                     *)
(***************************************************************************)
EXTENDS Integers, Sequences, FiniteSets, TLC

\* ------------------------------------------------------------------ bounds
MaxFootprints == 2
MaxRows == 2
NumThreads == 2
MaxRuns == 3

\* ------------------------------------------------------- strings and stod
Digits == <<"0", "1", "2", "3", "4", "5", "6", "7", "8", "9">>

IsDigit(c) == \E d \in 1..10 : Digits[d] = c

DigitVal(c) == (CHOOSE d \in 1..10 : Digits[d] = c) - 1

\* std::getline(ss, item, ' ') in a loop: the pieces between single spaces.
\* A piece is pushed when the delimiter or the end of the input ends it; at
\* the end of the input an empty piece is not pushed (getline fails when it
\* extracts nothing), so "" has no parts and "a " has one.
RECURSIVE SplitFrom(_, _, _, _)
SplitFrom(s, i, item, parts) ==
    IF i > Len(s)
    THEN IF item = <<>> THEN parts ELSE Append(parts, item)
    ELSE IF s[i] = " "
         THEN SplitFrom(s, i + 1, <<>>, Append(parts, item))
         ELSE SplitFrom(s, i + 1, Append(item, s[i]), parts)

Split(s) == SplitFrom(s, 1, <<>>, <<>>)

\* The digits of tok from position i on, as far as they go: <<value, next>>.
RECURSIVE DigitRun(_, _, _)
DigitRun(tok, i, acc) ==
    IF i <= Len(tok) /\ IsDigit(tok[i])
    THEN DigitRun(tok, i + 1, 10 * acc + DigitVal(tok[i]))
    ELSE <<acc, i>>

\* std::stod on a token of sign, digits and other characters: an optional
\* sign, then the longest run of digits; what follows is ignored.  With no
\* digit there is no conversion: std::invalid_argument.  (Tokens with a
\* fraction, an exponent, a hexadecimal prefix, "inf" or "nan", and values
\* out of a double's range, are outside the descriptors used here.)
stod(tok) ==
    LET neg == Len(tok) >= 1 /\ tok[1] = "-"
        first == IF Len(tok) >= 1 /\ tok[1] \in {"-", "+"} THEN 2 ELSE 1
        run == DigitRun(tok, first, 0)
    IN IF run[2] = first
       THEN [ok |-> FALSE, val |-> 0]
       ELSE [ok |-> TRUE, val |-> IF neg THEN 0 - run[1] ELSE run[1]]

\* --------------------------------------------------------------- geometry
\* S2LatLng::FromDegrees(dec, ra).ToPoint()
ToPoint(dec, ra) == [lon |-> ra, lat |-> dec]

radec_point_noNormalize(ra, dec) == ToPoint(dec, ra)

\* radec_point: ra = (ra > 180.0) ? ra - 360.0 : ra
radec_point(ra, dec) ==
    LET r == IF ra > 180 THEN ra - 360 ELSE ra
    IN ToPoint(dec, r)

Reverse(s) == [k \in 1..Len(s) |-> s[Len(s) + 1 - k]]

Next1(s, k) == IF k = Len(s) THEN 1 ELSE k + 1

\* Twice the signed area of the loop (shoelace): positive when the vertices
\* run counterclockwise, i.e. when the bounded side is on the left.
RECURSIVE Area2From(_, _)
Area2From(pts, k) ==
    IF k > Len(pts) THEN 0
    ELSE LET a == pts[k]
             b == pts[Next1(pts, k)]
         IN (a.lon * b.lat - b.lon * a.lat) + Area2From(pts, k + 1)

Area2(pts) == IF Len(pts) = 0 THEN 0 ELSE Area2From(pts, 1)

\* S2Loop::Normalize(): invert the loop (reverse its vertices) when it
\* encloses more than half of the sphere.
Normalize(pts) == IF Area2(pts) < 0 THEN Reverse(pts) ELSE pts

\* Edge k of the loop is crossed by the ray from p towards larger lon
\* (half-open rule: a vertex belongs to the edge above it).
Crosses(pts, k, p) ==
    LET a == pts[k]
        b == pts[Next1(pts, k)]
        dy == b.lat - a.lat
        lhs == (p.lon - a.lon) * dy
        rhs == (b.lon - a.lon) * (p.lat - a.lat)
    IN /\ (a.lat > p.lat) # (b.lat > p.lat)
       /\ IF dy > 0 THEN lhs < rhs ELSE lhs > rhs

\* S2Polygon::Contains(point) for a one-loop polygon: the side on the left
\* of the boundary.  A loop of fewer than 3 vertices has no interior.
Contains(pts, p) ==
    IF Len(pts) < 3 THEN FALSE
    ELSE LET odd == Cardinality({k \in 1..Len(pts) : Crosses(pts, k, p)}) % 2 = 1
         IN IF Area2(pts) < 0 THEN ~odd ELSE odd

\* ------------------------------------------------------------ load_region
POLYGON == <<"P", "O", "L", "Y", "G", "O", "N">>

\* The result of load_region: a polygon (its boundary points), nullptr, or
\* no result at all when the call has undefined behaviour.
NullPolygon == [kind |-> "null", points |-> <<>>, ras |-> <<>>]

\* The loop "for (int i = 1; i < parts.size() - 1; i += 2)": the points of
\* parts[i], parts[i + 1] from (1-based) position k on, with the values
\* std::stod gave for the ra tokens (ras), or not ok when std::stod throws
\* std::invalid_argument for one of the two tokens.
RECURSIVE ParsePoints(_, _, _, _)
ParsePoints(parts, k, points, ras) ==
    IF ~(k < Len(parts)) THEN [ok |-> TRUE, points |-> points, ras |-> ras]
    ELSE LET ra == stod(parts[k])
             dec == stod(parts[k + 1])
             r == IF ra.val > 180 THEN ra.val - 360 ELSE ra.val
         IN IF ~ra.ok \/ ~dec.ok
            THEN [ok |-> FALSE, points |-> <<>>, ras |-> <<>>]
            ELSE ParsePoints(parts, k + 2, Append(points, ToPoint(dec.val, r)),
                             Append(ras, ra.val))

\* "if (points.size() >= 2 && points.front() == points.back()) pop_back()"
DropClosing(points) ==
    IF Len(points) >= 2 /\ points[1] = points[Len(points)]
    THEN SubSeq(points, 1, Len(points) - 1)
    ELSE points

\* load_region.  The S2Loop is built from whatever points are left: there
\* is no test of their number or of repeated points.  (The validity check
\* that S2 runs on a new loop in debug builds is not part of this model.)
load_region(region) ==
    LET parts == Split(region)
    IN IF Len(parts) = 0
       THEN [kind |-> "ub", points |-> <<>>, ras |-> <<>>]   \* parts[0], no parts
       ELSE IF parts[1] # POLYGON THEN NullPolygon
       ELSE IF (Len(parts) - 1) % 2 # 0 THEN NullPolygon
       ELSE LET parsed == ParsePoints(parts, 2, <<>>, <<>>)
            IN IF ~parsed.ok THEN NullPolygon
               ELSE [kind |-> "polygon",
                     points |-> Normalize(DropClosing(parsed.points)),
                     ras |-> parsed.ras]

\* ----------------------------------------------------------------- inputs
\* The decimal text of an integer, and the descriptor made of a first word
\* and coordinate tokens separated by single spaces.
RECURSIVE NatText(_)
NatText(n) == IF n < 10 THEN <<Digits[n + 1]>>
              ELSE Append(NatText(n \div 10), Digits[(n % 10) + 1])

IntText(n) == IF n < 0 THEN <<"-">> \o NatText(0 - n) ELSE NatText(n)

RECURSIVE JoinTokens(_)
JoinTokens(toks) ==
    IF Len(toks) = 0 THEN <<>>
    ELSE IF Len(toks) = 1 THEN toks[1]
    ELSE toks[1] \o <<" ">> \o JoinTokens(Tail(toks))

Descriptor(word, nums) ==
    JoinTokens(<<word>> \o [k \in 1..Len(nums) |-> IntText(nums[k])])

\* Region descriptors of the footprint file's s_region list.
BoxAcrossZero == Descriptor(POLYGON, <<357, -2, 1, -2, 1, 2, -1, 2>>)
ClosedBox == Descriptor(POLYGON, <<44, 44, 44, 46, 46, 46, 46, 44, 44, 44>>)
OddCount == Descriptor(POLYGON, <<1, 2, 3>>)
NotPolygon == Descriptor(<<"L", "I", "N", "E">>, <<1, 2, 3, 4>>)
NonNumeric == JoinTokens(<<POLYGON, <<"1">>, <<"2">>, <<"q">>, <<"4">>>>)
NoPoints == POLYGON
TwoPoints == Descriptor(POLYGON, <<5, 5, 7, 7, 5, 5>>)
RepeatedPoint == Descriptor(POLYGON, <<4, 4, 4, 4, 6, 4, 6, 6>>)
EmptyText == <<>>

SampleRegions ==
    {BoxAcrossZero, ClosedBox, OddCount, NotPolygon, NonNumeric, NoPoints,
     TwoPoints, RepeatedPoint, EmptyText}

\* The obs_id at each position of the footprint file.
SampleObsId == <<"tess-s0001-1-1", "tess-s0002-2-3", "tess-s0003-4-2",
                 "tess-s0004-3-4">>

\* Rows of the input csv (ID, ra, dec).
SampleRows == {[ID |-> "t1", ra |-> 359, dec |-> 0],
               [ID |-> "t2", ra |-> 45, dec |-> 45]}

SeqsUpTo(S, n) == UNION {[1..m -> S] : m \in 0..n}

\* ------------------------------------------------------------------ state
VARIABLES
    obs_id,             \* footprints["obs_id"]
    s_region,           \* footprints["s_region"]
    rows,               \* the rows of the input csv
    pc,                 \* main: "load", "query", "done" or "aborted"
    exit,               \* the signal that ended an aborted run
    region_i,           \* regions IndexedPolygons::load has gone through
    names,              \* IndexedPolygons::names
    polygons,           \* IndexedPolygons::polygons (each one's points)
    parsed_ra,          \* per polygon, the ra values std::stod gave for it
    index,              \* IndexedPolygons::index (MutableS2ShapeIndex)
    results,            \* std::vector<Target> results
    current_iteration,  \* std::atomic<int> current_iteration
    claimed,            \* iterations of the parallel for handed to a thread
    thr,                \* each thread's position and locals (i, t, point)
    writes,             \* the assignments to results so far, in order
    cache,              \* the cache file's content, or NoFile
    run,                \* the number of the current run of load_footprints
    lf_pc,              \* load_footprints: its position in the current run
    footprints,         \* load_footprints: the local string footprints
    fetches             \* network transfers of the current run

mainVars == <<obs_id, s_region, rows, pc, exit, region_i, names, polygons, parsed_ra,
              index,
              results, current_iteration, claimed, thr, writes>>

cacheVars == <<cache, run, lf_pc, footprints, fetches>>

vars == <<mainVars, cacheVars>>

Threads == 1..NumThreads

\* A value-initialized Target.
DefaultTarget == [ID |-> "", ra |-> 0, dec |-> 0, observations |-> <<>>]

IdleThread == [pc |-> "idle", i |-> 0, t |-> DefaultTarget, point |-> ToPoint(0, 0)]

\* A MutableS2ShapeIndex with nothing added.  Add() only queues a shape: the
\* cell structure is brought up to date by the first query that follows,
\* under the index's own lock (S2: "updates are applied lazily on the first
\* subsequent query, in a thread-safe way").  shapes[k] is the position in
\* polygons of the polygon that the shape with id k - 1 wraps; applied is the
\* number of shapes the cell structure covers; lock is the thread holding
\* the index's lock, 0 when it is free.
EmptyIndex == [shapes |-> <<>>, applied |-> 0, status |-> "FRESH", lock |-> 0]

\* What ends the process at a null or out-of-range access: the fault itself,
\* or the abort of a library assertion or sanitizer in a build that has one.
FaultSignals == {"SIGSEGV", "SIGABRT"}

\* The state when IndexedPolygons::load has read the footprint file and
\* copied obs_id into names, before its loop over s_region.
Init ==
    /\ \E n \in 0..MaxFootprints :
          /\ obs_id = SubSeq(SampleObsId, 1, n)
          /\ s_region \in [1..n -> SampleRegions]
    /\ rows \in SeqsUpTo(SampleRows, MaxRows)
    /\ pc = "load"
    /\ exit = ""
    /\ region_i = 0
    /\ names = obs_id
    /\ polygons = <<>>
    /\ parsed_ra = <<>>
    /\ index = EmptyIndex
    /\ results = <<>>
    /\ current_iteration = 0
    /\ claimed = {}
    /\ thr = [th \in Threads |-> IdleThread]
    /\ writes = <<>>
    /\ cache = [kind |-> "json", data |-> "release-a"]
    /\ run = 1
    /\ lf_pc = "returned"
    /\ footprints = cache
    /\ fetches = 0

\* ------------------------------------------------- IndexedPolygons::load
IndexAdd_keepsFresh(idx, k) == [idx EXCEPT !.shapes = Append(@, k)]

\* MutableS2ShapeIndex::Add of a shape over the polygon at position k.
IndexAdd(idx, k) == [idx EXCEPT !.shapes = Append(@, k), !.status = "STALE"]

\* One pass of "for (const auto &region: footprints["s_region"])".
\* std::make_unique<S2Polygon::Shape>(poly.get()) reads through the pointer:
\* with the nullptr of a rejected region that is a null dereference, and the
\* run ends there; so does parts[0] on the parts of an empty descriptor.
LoadRegion ==
    /\ pc = "load"
    /\ region_i < Len(s_region)
    /\ LET poly == load_region(s_region[region_i + 1])
       IN IF poly.kind = "polygon"
          THEN /\ index' = IndexAdd(index, Len(polygons) + 1)
               /\ polygons' = Append(polygons, poly.points)
               /\ parsed_ra' = Append(parsed_ra, poly.ras)
               /\ region_i' = region_i + 1
               /\ UNCHANGED <<pc, exit>>
          ELSE /\ pc' = "aborted"
               /\ exit' \in FaultSignals
               /\ UNCHANGED <<index, polygons, parsed_ra, region_i>>
    /\ UNCHANGED <<obs_id, s_region, rows, names, results, current_iteration,
                   claimed, thr, writes, cacheVars>>

\* The end of load, the csv rows, and "std::vector<Target> results(rows.size())".
StartQuery ==
    /\ pc = "load"
    /\ region_i = Len(s_region)
    /\ results' = [i \in 1..Len(rows) |-> DefaultTarget]
    /\ current_iteration' = 0
    /\ pc' = "query"
    /\ UNCHANGED <<obs_id, s_region, rows, exit, region_i, names, polygons,
                   parsed_ra, index, claimed, thr, writes, cacheVars>>

\* ------------------------------------------------ IndexedPolygons::search
\* VisitContainingShapes over the shapes the cell structure covers, in the
\* order of their ids: names[shape->id()] of each shape whose polygon
\* contains the point.
RECURSIVE VisitFrom(_, _, _, _, _)
VisitFrom(idx, nms, polys, point, k) ==
    IF k > idx.applied THEN <<>>
    ELSE (IF Contains(polys[idx.shapes[k]], point) THEN <<nms[k]>> ELSE <<>>)
         \o VisitFrom(idx, nms, polys, point, k + 1)

search_skipFirstShape(idx, nms, polys, point) == VisitFrom(idx, nms, polys, point, 2)

search_reportAll(idx, nms, polys, point) == [k \in 1..idx.applied |-> nms[k]]

search(idx, nms, polys, point) == VisitFrom(idx, nms, polys, point, 1)

\* -------------------------------------------------- the parallel query loop
\* "#pragma omp parallel for": every iteration is handed to one thread.
Claim_notRecorded(done, i) == done

Claim(done, i) == done \cup {i}

\* The slot that "results[i] = t" assigns.
ResultSlot_nextFree(res, i) ==
    IF \E k \in 1..Len(res) : res[k] = DefaultTarget
    THEN CHOOSE k \in 1..Len(res) :
            /\ res[k] = DefaultTarget
            /\ \A j \in 1..(k - 1) : res[j] # DefaultTarget
    ELSE i

ResultSlot(res, i) == i

\* Lines 232-237 up to the construction of the S2ContainsPointQuery: the row
\* is read into t and the point made; the query's iterator looks at the
\* index, which is up to date or has queued shapes still to be applied.
BeginIteration(th) ==
    /\ pc = "query"
    /\ thr[th].pc = "idle"
    /\ \E i \in (1..Len(rows)) \ claimed :
          /\ claimed' = Claim(claimed, i)
          /\ thr' = [thr EXCEPT ![th] =
                        [pc |-> IF index.status = "FRESH" THEN "visit" ELSE "lock",
                         i |-> i,
                         t |-> [ID |-> rows[i].ID, ra |-> rows[i].ra,
                                dec |-> rows[i].dec, observations |-> <<>>],
                         point |-> radec_point(rows[i].ra, rows[i].dec)]]
    /\ UNCHANGED <<obs_id, s_region, rows, pc, exit, region_i, names,
                   polygons, parsed_ra, index, results, current_iteration,
                   writes, cacheVars>>

\* The thread takes the index's lock: if another thread has applied the
\* updates meanwhile it goes on, else it starts applying them.
LockIndex(th) ==
    /\ pc = "query"
    /\ thr[th].pc = "lock"
    /\ index.lock = 0
    /\ IF index.status = "FRESH"
       THEN /\ thr' = [thr EXCEPT ![th].pc = "visit"]
            /\ UNCHANGED index
       ELSE /\ thr' = [thr EXCEPT ![th].pc = "build"]
            /\ index' = [index EXCEPT !.lock = th, !.status = "UPDATING"]
    /\ UNCHANGED <<obs_id, s_region, rows, pc, exit, region_i, names,
                   polygons, parsed_ra, results, current_iteration, claimed,
                   writes, cacheVars>>

\* The queued shapes are put into the cell structure and the lock released.
ApplyUpdates(th) ==
    /\ pc = "query"
    /\ thr[th].pc = "build"
    /\ index' = [index EXCEPT !.applied = Len(index.shapes), !.status = "FRESH",
                              !.lock = 0]
    /\ thr' = [thr EXCEPT ![th].pc = "visit"]
    /\ UNCHANGED <<obs_id, s_region, rows, pc, exit, region_i, names,
                   polygons, parsed_ra, results, current_iteration, claimed,
                   writes, cacheVars>>

\* The visit of the containing shapes, "results[i] = t" and
\* "++current_iteration".
StoreResult(th) ==
    /\ pc = "query"
    /\ thr[th].pc = "visit"
    /\ LET t == [thr[th].t EXCEPT
                    !.observations = search(index, names, polygons, thr[th].point)]
           slot == ResultSlot(results, thr[th].i)
       IN /\ results' = [results EXCEPT ![slot] = t]
          /\ writes' = Append(writes, [iteration |-> thr[th].i, slot |-> slot])
    /\ current_iteration' = current_iteration + 1
    /\ thr' = [thr EXCEPT ![th] = IdleThread]
    /\ UNCHANGED <<obs_id, s_region, rows, pc, exit, region_i, names,
                   polygons, parsed_ra, index, claimed, cacheVars>>

\* The end of the parallel region: every iteration has been run.
Join ==
    /\ pc = "query"
    /\ claimed = 1..Len(rows)
    /\ \A th \in Threads : thr[th].pc = "idle"
    /\ pc' = "done"
    /\ UNCHANGED <<obs_id, s_region, rows, exit, region_i, names, polygons,
                   parsed_ra, index, results, current_iteration, claimed, thr,
                   writes, cacheVars>>

Next ==
    \/ LoadRegion
    \/ StartQuery
    \/ \E th \in Threads : BeginIteration(th)
    \/ \E th \in Threads : LockIndex(th)
    \/ \E th \in Threads : ApplyUpdates(th)
    \/ \E th \in Threads : StoreResult(th)
    \/ Join

Spec == Init /\ [][Next]_vars

\* -------------------------------------------------------- load_footprints
\* A text is empty, the JSON of a release of the footprint file, or another
\* document (the body of an HTTP error reply: curl_easy_perform returns
\* CURLE_OK for it, CURLOPT_FAILONERROR not being set).
NoFile == [kind |-> "nofile"]

NoText == [kind |-> "empty"]

Releases == {"release-a", "release-b"}

ServerBodies ==
    {NoText, [kind |-> "other"]} \cup {[kind |-> "json", data |-> d] : d \in Releases}

\* json::parse(footprints) returns for a JSON text and throws for the rest.
Parses(text) == text.kind = "json"

\* The run is at the test std::filesystem::exists(p).
AtStart == lf_pc = "start"

\* download_footprints: curl_easy_init() fails, and "" is returned.
DownloadInitFails ==
    /\ AtStart
    /\ cache = NoFile
    /\ footprints' = NoText
    /\ lf_pc' = "save"
    /\ UNCHANGED <<cache, run, fetches, mainVars>>

\* download_footprints: curl_easy_perform fails, and the function throws
\* before load_footprints opens the cache file.
DownloadPerformFails ==
    /\ AtStart
    /\ cache = NoFile
    /\ fetches' = fetches + 1
    /\ lf_pc' = "threw"
    /\ UNCHANGED <<cache, run, footprints, mainVars>>

\* download_footprints: the transfer ends with CURLE_OK and the body received.
Download ==
    /\ AtStart
    /\ cache = NoFile
    /\ footprints' \in ServerBodies
    /\ fetches' = fetches + 1
    /\ lf_pc' = "save"
    /\ UNCHANGED <<cache, run, mainVars>>

\* "std::ofstream file(p); ... file << footprints;"
SaveCache ==
    /\ lf_pc = "save"
    /\ cache' = footprints
    /\ lf_pc' = "parse"
    /\ UNCHANGED <<run, footprints, fetches, mainVars>>

\* The cache file cannot be opened for writing: "Proceeding anyway."
SaveCacheOpenFails ==
    /\ lf_pc = "save"
    /\ lf_pc' = "parse"
    /\ UNCHANGED <<cache, run, footprints, fetches, mainVars>>

\* The cache file exists and is read into footprints.
ReadCache ==
    /\ AtStart
    /\ cache # NoFile
    /\ footprints' = cache
    /\ lf_pc' = "parse"
    /\ UNCHANGED <<cache, run, fetches, mainVars>>

\* The cache file exists and cannot be opened: std::runtime_error.
ReadCacheOpenFails ==
    /\ AtStart
    /\ cache # NoFile
    /\ lf_pc' = "threw"
    /\ UNCHANGED <<cache, run, footprints, fetches, mainVars>>

\* "return json::parse(footprints);"
Parse ==
    /\ lf_pc = "parse"
    /\ lf_pc' = IF Parses(footprints) THEN "returned" ELSE "threw"
    /\ UNCHANGED <<cache, run, footprints, fetches, mainVars>>

\* The program is started again.
NextRun ==
    /\ lf_pc \in {"returned", "threw"}
    /\ run < MaxRuns
    /\ run' = run + 1
    /\ lf_pc' = "start"
    /\ footprints' = NoText
    /\ fetches' = 0
    /\ UNCHANGED <<cache, mainVars>>

CacheInit ==
    /\ obs_id = <<>>
    /\ s_region = <<>>
    /\ rows = <<>>
    /\ pc = "load"
    /\ exit = ""
    /\ region_i = 0
    /\ names = <<>>
    /\ polygons = <<>>
    /\ parsed_ra = <<>>
    /\ index = EmptyIndex
    /\ results = <<>>
    /\ current_iteration = 0
    /\ claimed = {}
    /\ thr = [th \in Threads |-> IdleThread]
    /\ writes = <<>>
    /\ cache = NoFile
    /\ run = 1
    /\ lf_pc = "start"
    /\ footprints = NoText
    /\ fetches = 0

CacheNext ==
    \/ DownloadInitFails
    \/ DownloadPerformFails
    \/ Download
    \/ SaveCache
    \/ SaveCacheOpenFails
    \/ ReadCache
    \/ ReadCacheOpenFails
    \/ Parse
    \/ NextRun

CacheSpec == CacheInit /\ [][CacheNext]_vars

\* ================================================================ claims
Range(f) == {f[k] : k \in DOMAIN f}

\* The point main makes of row i.
RowPoint(i) == radec_point(rows[i].ra, rows[i].dec)

\* The Target in the slot that the a-th assignment to results wrote.
Written(a) == results[writes[a].slot]

\* C1: once the parallel loop has finished, results is as long as rows and
\* results[i].ID is the ID of row i, whatever the order in which the
\* iterations completed.
C1_OrderPreserved ==
    pc = "done" =>
        /\ Len(results) = Len(rows)
        /\ \A i \in 1..Len(rows) : results[i].ID = rows[i].ID

\* C1 witness: a finished loop over two rows with different IDs in which the
\* second row's iteration stored its result first.
C1_Witness ==
    /\ pc = "done"
    /\ Len(rows) = 2
    /\ rows[1].ID # rows[2].ID
    /\ writes[1].iteration = 2

\* C2 (as claimed): a region that load_region rejects does not end the
\* build, and when load has gone through the list every well-formed region
\* is in the index and the rejected ones are not.
C2_RejectedRegionSkipped ==
    /\ pc = "aborted" => load_region(s_region[region_i + 1]).kind # "null"
    /\ (pc # "aborted" /\ region_i = Len(s_region)) =>
          LET ok == {k \in 1..Len(s_region) : load_region(s_region[k]).kind = "polygon"}
          IN /\ Len(polygons) = Cardinality(ok)
             /\ \A k \in ok : load_region(s_region[k]).points \in Range(polygons)

\* C3: the polygons registered are those of the dataset's regions, position
\* by position, and every stored result lists exactly the obs_id of the
\* dataset positions whose polygon contains the row's point, each once.
C3_SearchExact ==
    /\ Len(polygons) = region_i
    /\ pc = "load" =>
          \A k \in 1..region_i : polygons[k] = load_region(s_region[k]).points
    /\ \A a \in DOMAIN writes :
          LET i == writes[a].iteration
              hit == {k \in 1..Len(s_region) : Contains(polygons[k], RowPoint(i))}
              obs == Written(a).observations
          IN /\ Range(obs) = {obs_id[k] : k \in hit}
             /\ Len(obs) = Cardinality(hit)

\* C3 witness: a result whose only observation is the obs_id of the second
\* of two footprints.
C3_Witness ==
    /\ Len(obs_id) = 2
    /\ \E a \in DOMAIN writes : Written(a).observations = <<obs_id[2]>>

\* C4: a row whose point no footprint contains (always so when the index has
\* no footprint) gets an empty observations list; no run ends in the query
\* loop, which can always go on until it has finished; and the finished run
\* has one Target per row.
C4_QueriesTotal ==
    /\ \A a \in DOMAIN writes :
          (\A k \in 1..Len(polygons) :
              ~Contains(polygons[k], RowPoint(writes[a].iteration)))
          => Written(a).observations = <<>>
    /\ pc = "aborted" => (results = <<>> /\ writes = <<>>)
    /\ pc = "query" => ENABLED Next
    /\ pc = "done" =>
          /\ Len(results) = Len(rows)
          /\ \A i \in 1..Len(rows) : \E a \in DOMAIN writes : writes[a].slot = i

\* C4 witness: a finished run over an index with a footprint in which a row's
\* Target has been stored with no observation.
C4_Witness ==
    /\ pc = "done"
    /\ index.applied >= 1
    /\ \E i \in 1..Len(rows) :
          /\ results[i].ID = rows[i].ID
          /\ results[i].observations = <<>>

\* C5 (as claimed): no polygon of fewer than 3 points is in the index.
C5_DegenerateRejected ==
    \A k \in 1..Len(index.shapes) : Len(polygons[index.shapes[k]]) >= 3

\* The mapping the claim states: ra - 360 above 180, ra otherwise.
Wrapped(ra) == IF ra > 180 THEN ra - 360 ELSE ra

\* C6: the longitudes of a polygon's points are the ra values read for it,
\* wrapped; the longitude of a query point is its row's ra, wrapped; and a
\* query whose ra is 360 away from a vertex's ra, the larger of the two in
\* (180, 360], has that vertex's longitude.
C6_SameNormalization ==
    /\ \A k \in 1..Len(polygons) :
          {p.lon : p \in Range(polygons[k])} = {Wrapped(v) : v \in Range(parsed_ra[k])}
    /\ \A th \in Threads :
          thr[th].pc # "idle" =>
             LET q == thr[th].t.ra
             IN /\ thr[th].point.lon = Wrapped(q)
                /\ \A k \in 1..Len(polygons) : \A v \in Range(parsed_ra[k]) :
                      (\/ (v > 180 /\ v <= 360 /\ q = v - 360)
                       \/ (q > 180 /\ q <= 360 /\ v = q - 360))
                      => \E p \in Range(polygons[k]) : p.lon = thr[th].point.lon

\* C6 witness: a query at ra 359 against a polygon with a vertex given at
\* ra -1: both are at longitude -1.
C6_Witness ==
    \E th \in Threads :
        /\ thr[th].pc # "idle"
        /\ thr[th].t.ra = 359
        /\ thr[th].point.lon = 0 - 1
        /\ \E k \in 1..Len(polygons) :
              /\ (0 - 1) \in Range(parsed_ra[k])
              /\ \E p \in Range(polygons[k]) : p.lon = 0 - 1

\* The index's state apart from its lock.
Structure(idx) == <<idx.shapes, idx.applied, idx.status>>

C8_DisjointSlots ==
    /\ pc \in {"query", "done"} => Len(results) = Len(rows)
    /\ \A a \in DOMAIN writes : writes[a].slot = writes[a].iteration
    /\ \A a, b \in DOMAIN writes : writes[a].slot = writes[b].slot => a = b
    /\ pc = "done" => {writes[a].slot : a \in DOMAIN writes} = 1..Len(rows)

\* C8 witness: a slot has been assigned while another thread, handling
\* another row, is about to assign its own.
C8_Witness ==
    /\ pc = "query"
    /\ Len(writes) >= 1
    /\ \E th \in Threads :
          /\ thr[th].pc = "visit"
          /\ \A a \in DOMAIN writes : writes[a].slot # thr[th].i

\* C9 (as claimed): in a polygon of load_region no point equals the next
\* one, the first being next to the last.
C9_NoAdjacentDuplicates ==
    \A k \in 1..Len(polygons) :
        Len(polygons[k]) >= 2 =>
            \A j \in 1..Len(polygons[k]) :
                polygons[k][j] # polygons[k][Next1(polygons[k], j)]

\* C10 (as claimed): a cache file that exists holds a dataset that parses,
\* and a run that found the cache file fetches nothing and returns the
\* dataset.
C10_CacheHoldsParsedDownload ==
    /\ cache # NoFile => Parses(cache)
    /\ (lf_pc = "returned" /\ fetches = 0) => footprints = cache

====
